---- MODULE Spec2Model ----
(***************************************************************************)
(* modman: the download / verify / move pipeline of ModManRuntime          *)
(* (src/src/modman/runtime.py) and the rate-limited registry access of     *)
(* ModrinthAPI._get (src/src/modman/modrinth.py).                          *)
(***************************************************************************)
EXTENDS Integers, Sequences, FiniteSets, TLC

\* ----------------------------------------------------------------- bounds
\* Longest descriptor list handed to download_files.
MaxFiles == 2
\* Largest value of the concurrent_downloads setting.
MaxPool == 2

\* ------------------------------------------------------------- data model
\* File names under the cache root and the destination directory.
Names == {"a.jar", "b.jar"}
\* A response body is the sequence of chunks iter_bytes yields.
Bodies == {<<1, 2>>, <<2, 1>>}
\* A file on disk: absent, or present with its data (possibly empty).
Absent == [exists |-> FALSE, data |-> <<>>]
OnDisk(d) == [exists |-> TRUE, data |-> d]

\* hashes.sha1 of a descriptor that carries no sha1.
None == "None"
\* Hex digit of one unit of data (0 is a hole left by a write past the end).
HexOf(c) == IF c = 0 THEN "0" ELSE IF c = 1 THEN "a" ELSE "b"
\* hasher.update over the data read from the file, then hexdigest():
\* a digest is modelled as an injective function of the data.
RECURSIVE Update(_, _)
Update(h, data) ==
    IF data = <<>> THEN h ELSE Update(h \o HexOf(Head(data)), Tail(data))
Hexdigest(data) == Update("sha1:", data)

\* The body the registry published for every file, and its digest.
Published == <<1, 2>>
Hashes == {Hexdigest(Published), None}
\* VersionFile, reduced to the fields the pipeline reads.
VersionFile == [filename : Names, sha1 : Hashes]

\* pathlib paths; NoPath is the None stored in downloads.
NoPath == [dir |-> "none", name |-> ""]
CachePath(name) == [dir |-> "cache", name |-> name]
DestPath(name) == [dir |-> "dest", name |-> name]
\* Variant: every worker writes one and the same cache file.
WritePathShared(file) == CachePath("a.jar")
\* runtime.py 61: the file a worker writes, self.cache_dir / file.filename.
WritePath(file) == CachePath(file.filename)

\* Python dicts keep insertion order: a sequence of key/value entries.
DictHas(d, k) == \E n \in 1..Len(d) : d[n].key = k
DictGet(d, k) == d[CHOOSE n \in 1..Len(d) : d[n].key = k].val
DictSet(d, k, v) ==
    IF DictHas(d, k)
    THEN [n \in 1..Len(d) |-> IF d[n].key = k THEN [key |-> k, val |-> v] ELSE d[n]]
    ELSE Append(d, [key |-> k, val |-> v])

VARIABLES
    files,          \* the list passed to download_files
    pool,           \* config["modman"]["concurrent_downloads"]
    cache,          \* cache directory: name -> file
    dest,           \* destination directory: name -> file
    pc,             \* position of the calling thread in download_files
    idx,            \* index of the loop the calling thread is in
    downloads,      \* dict VersionFile -> path or None
    locations,      \* dict VersionFile -> final path
    tasks,          \* submitted work items, tasks[n] has task_id n - 1
    exc,            \* exception propagating out of the executor block
    error,          \* what download_files raised
    dest0,          \* the destination directory as it was at the call
    cache0,         \* the cache directory as it was at the call
    invocation,     \* which call of download_files this is, counted from 1
    bad,            \* descriptors an earlier call raised the integrity error at
    last,           \* the list and the outcome of the call before this one
    ratelimit_reset,        \* ModrinthAPI.ratelimit_reset
    ratelimit_remaining,    \* ModrinthAPI.ratelimit_remaining
    clock,          \* wall clock, in ticks of 1 / TicksPerSecond seconds
    gpc,            \* position of the calling thread in _get
    now,            \* local of _get: time.time() as read at line 56
    wait_seconds,   \* local of _get
    slept,          \* sleeps done by the running invocation of _get
    attempt,        \* the i of the connection loop of _get
    recalls,        \* depth of the 429 recursion of _get
    calls,          \* calls of _get made so far
    outcome,        \* how the last call of _get ended
    request,        \* the url and params of the running call of _get
    sent,           \* http.get calls made by the running invocation of _get
    response,       \* the response _get received last in the running call
    fop,            \* the lookup method of ModrinthAPI that is running
    fresult         \* what the lookup method returned or raised

callvars == <<invocation, bad, last>>

dlvars == <<files, pool, cache, dest, pc, idx, downloads, locations, tasks,
            exc, error, dest0, cache0, callvars>>

fetchvars == <<fop, fresult>>

apivars == <<ratelimit_reset, ratelimit_remaining, clock, gpc, now,
             wait_seconds, slept, attempt, recalls, calls, outcome,
             request, sent, response, fetchvars>>

vars == <<dlvars, apivars>>

\* ------------------------------------------------------------ filesystem
\* _get_cached_file: the cache path of the file if it exists, else None.
GetCachedFile(file) ==
    IF cache[file.filename].exists THEN CachePath(file.filename) ELSE NoPath

\* Variant: the digest is not compared.
VerifyFileSkipped(path, expected) == TRUE

\* _verify_file(path, expected=...): digest of the data at the cache path
\* compared with the expected digest (None never equals a digest).
VerifyFile(path, expected) == Hexdigest(cache[path.name].data) = expected

\* f.write(chunk) through a handle whose position is off: data before off is
\* kept (a hole is zero-filled when the file was truncated meanwhile), the
\* unit at off is replaced, data after it is kept.
WriteAt(data, off, c) ==
    [n \in 1..(IF Len(data) > off + 1 THEN Len(data) ELSE off + 1) |->
        IF n = off + 1 THEN c
        ELSE IF n <= Len(data) THEN data[n] ELSE 0]

\* ------------------------------------------------------- executor state
Queued(t) == tasks[t].state = "queued"
\* A worker thread is executing _download_file for the task.
InFlight(t) == tasks[t].state \in {"running", "writing"}
\* Variant: a future counts as finished whatever its state.
FinishedUnchecked(t) == TRUE
Finished(t) == tasks[t].state \in {"done", "failed"}
NumInFlight == Cardinality({t \in 1..Len(tasks) : InFlight(t)})
\* Variant: a thread per work item.
WorkerUnbounded == TRUE
\* Variant: a worker thread exits after its first work item.
WorkerNotReused == Cardinality({t \in 1..Len(tasks) : ~Queued(t)}) < pool
\* ThreadPoolExecutor(max_workers = pool): a work item is taken from the
\* queue only by a worker thread, and there are at most pool of them.
WorkerAvailable == NumInFlight < pool
\* The work queue is first in, first out.
NextQueued(t) == Queued(t) /\ \A u \in 1..(t - 1) : ~Queued(u)
\* Variant: shutdown(wait=False).
ShutdownNoWait == TRUE
\* ThreadPoolExecutor.__exit__: shutdown(wait=True) joins the workers, which
\* exit only when the queue is drained.
AllJoined == \A t \in 1..Len(tasks) : Finished(t)

\* ------------------------------------------------------------------ Init
\* No call of _get is running; no response has been received.
NoRequest == [url |-> "", params |-> {}]
NoHeader == [present |-> FALSE, text |-> ""]
\* A JSON body: an array of items, or one object (items then holds it alone).
JsonArray(items) == [array |-> TRUE, items |-> items]
JsonObject(item) == [array |-> FALSE, items |-> <<item>>]
NoResponse ==
    [status |-> 0, reset |-> NoHeader, remaining |-> NoHeader, body |-> JsonArray(<<>>)]
\* No lookup method is running; none has returned.
NoOp ==
    [name |-> "none", ids |-> <<>>, loaders |-> <<>>, game_versions |-> <<>>,
     featured |-> "None", algorithm |-> ""]
NoResult == [kind |-> "none", items |-> <<>>, error |-> ""]

\* modrinth.py 44-45: ModrinthAPI.__init__.
InitialReset == 0
InitialRemaining == 500
ApiConstructed ==
    /\ ratelimit_reset = InitialReset
    /\ ratelimit_remaining = InitialRemaining
    /\ gpc = "idle"
    /\ now = 0
    /\ wait_seconds = 0
    /\ slept = 0
    /\ attempt = 0
    /\ recalls = 0
    /\ calls = 0
    /\ outcome = "none"
    /\ request = NoRequest
    /\ sent = 0
    /\ response = NoResponse
    /\ fop = NoOp
    /\ fresult = NoResult

\* No call of download_files came before.
NoLast == [files |-> <<>>, returned |-> FALSE, locations |-> <<>>]
FirstCall ==
    /\ invocation = 1
    /\ bad = {}
    /\ last = NoLast

CacheStates == [Names -> {Absent} \cup {OnDisk(b) : b \in Bodies}]
\* The destination before the call: an older a.jar, no b.jar.
DestBefore == [n \in Names |-> IF n = "a.jar" THEN OnDisk(<<2, 2>>) ELSE Absent]
FileLists == UNION {[1..n -> VersionFile] : n \in 0..MaxFiles}

Init ==
    /\ files \in FileLists
    /\ pool \in 1..MaxPool
    /\ cache \in CacheStates
    /\ dest = DestBefore
    /\ dest0 = dest
    /\ cache0 = cache
    /\ pc = "lookup"
    /\ idx = 1
    /\ downloads = <<>>
    /\ locations = <<>>
    /\ tasks = <<>>
    /\ exc = "none"
    /\ error = "none"
    /\ FirstCall
    /\ ApiConstructed
    /\ clock = 0

\* ------------------------------------------------- download_files, phase 1
\* Variant: a cached file that fails verification is downloaded again.
CacheLookupNoRaise ==
    /\ UNCHANGED apivars
    /\ UNCHANGED callvars
    /\ pc = "lookup"
    /\ idx <= Len(files)
    /\ LET file == files[idx]
           cached_file == GetCachedFile(file)
       IN IF cached_file # NoPath /\ ~VerifyFile(cached_file, file.sha1)
          THEN downloads' = DictSet(downloads, file, NoPath)
          ELSE downloads' = DictSet(downloads, file, cached_file)
    /\ idx' = idx + 1
    /\ UNCHANGED <<files, pool, cache, dest, pc, locations, tasks, exc, error,
                   dest0, cache0>>

\* Variant: a cached file that fails verification is deleted before the raise.
CacheLookupEvicts ==
    /\ UNCHANGED apivars
    /\ UNCHANGED callvars
    /\ pc = "lookup"
    /\ idx <= Len(files)
    /\ LET file == files[idx]
           cached_file == GetCachedFile(file)
       IN IF cached_file # NoPath /\ ~VerifyFile(cached_file, file.sha1)
          THEN /\ pc' = "raised"
               /\ error' = "IntegrityError"
               /\ downloads' = DictSet(downloads, file, NoPath)
               /\ idx' = idx
               /\ cache' = [cache EXCEPT ![file.filename] = Absent]
          ELSE /\ pc' = pc
               /\ error' = error
               /\ downloads' = DictSet(downloads, file, cached_file)
               /\ idx' = idx + 1
               /\ cache' = cache
    /\ UNCHANGED <<files, pool, dest, locations, tasks, exc, dest0, cache0>>

\* runtime.py 82-95: one iteration of the cache-lookup loop.
CacheLookup ==
    /\ UNCHANGED apivars
    /\ UNCHANGED callvars
    /\ pc = "lookup"
    /\ idx <= Len(files)
    /\ LET file == files[idx]
           cached_file == GetCachedFile(file)
       IN IF cached_file # NoPath /\ ~VerifyFile(cached_file, file.sha1)
          THEN /\ pc' = "raised"
               /\ error' = "IntegrityError"
               /\ downloads' = DictSet(downloads, file, NoPath)
               /\ idx' = idx
          ELSE /\ pc' = pc
               /\ error' = error
               /\ downloads' = DictSet(downloads, file, cached_file)
               /\ idx' = idx + 1
    /\ UNCHANGED <<files, pool, cache, dest, locations, tasks, exc, dest0, cache0>>

\* runtime.py 97-112: the loop is over; the executor is created.
LookupDone ==
    /\ UNCHANGED apivars
    /\ UNCHANGED callvars
    /\ pc = "lookup"
    /\ idx > Len(files)
    /\ pc' = "submit"
    /\ idx' = 1
    /\ UNCHANGED <<files, pool, cache, dest, downloads, locations, tasks, exc,
                   error, dest0, cache0>>

\* ------------------------------------------------- download_files, phase 2
\* Variant: every file is submitted.
SkipNothing(file) == FALSE

\* runtime.py 114: downloads[file] is truthy when a cached file verified.
SkipSubmit(file) == DictGet(downloads, file) # NoPath

\* runtime.py 113-123: one iteration of the submit loop. progress.add_task
\* numbers the tasks of this Progress 0, 1, 2, ...
Submit ==
    /\ UNCHANGED apivars
    /\ UNCHANGED callvars
    /\ pc = "submit"
    /\ idx <= Len(files)
    /\ LET file == files[idx]
       IN IF SkipSubmit(file)
          THEN tasks' = tasks
          ELSE tasks' = Append(tasks, [task_id |-> Len(tasks), file |-> file,
                                       state |-> "queued", body |-> <<>>,
                                       off |-> 0])
    /\ idx' = idx + 1
    /\ UNCHANGED <<files, pool, cache, dest, pc, downloads, locations, exc,
                   error, dest0, cache0>>

SubmitDone ==
    /\ UNCHANGED apivars
    /\ UNCHANGED callvars
    /\ pc = "submit"
    /\ idx > Len(files)
    /\ pc' = "wait"
    /\ idx' = 1
    /\ UNCHANGED <<files, pool, cache, dest, downloads, locations, tasks, exc,
                   error, dest0, cache0>>

\* runtime.py 127: the descriptor the finished task is booked under.
ResultFile(task_id) == files[task_id + 1]

\* runtime.py 125-127: future.result() of the next task in submission order
\* returns, or re-raises what the worker raised.
WaitResult ==
    /\ UNCHANGED apivars
    /\ UNCHANGED callvars
    /\ pc = "wait"
    /\ idx <= Len(tasks)
    /\ Finished(idx)
    /\ IF tasks[idx].state = "failed"
       THEN /\ exc' = "TransferError"
            /\ pc' = "join"
            /\ UNCHANGED <<downloads, idx>>
       ELSE /\ downloads' = DictSet(downloads, ResultFile(tasks[idx].task_id),
                                     CachePath(ResultFile(tasks[idx].task_id).filename))
            /\ idx' = idx + 1
            /\ UNCHANGED <<exc, pc>>
    /\ UNCHANGED <<files, pool, cache, dest, locations, tasks, error, dest0, cache0>>

WaitDone ==
    /\ UNCHANGED apivars
    /\ UNCHANGED callvars
    /\ pc = "wait"
    /\ idx > Len(tasks)
    /\ pc' = "join"
    /\ UNCHANGED <<files, pool, cache, dest, idx, downloads, locations, tasks,
                   exc, error, dest0, cache0>>

\* runtime.py 111: leaving the executor block, normally or with an exception.
ExecutorExit ==
    /\ UNCHANGED apivars
    /\ UNCHANGED callvars
    /\ pc = "join"
    /\ AllJoined
    /\ IF exc # "none"
       THEN pc' = "raised" /\ error' = exc /\ idx' = idx
       ELSE pc' = "move" /\ error' = error /\ idx' = 1
    /\ UNCHANGED <<files, pool, cache, dest, downloads, locations, tasks, exc,
                   dest0, cache0>>

\* ---------------------------------------------------------- pool workers
SetTask(t, r) == [tasks EXCEPT ![t] = r]

\* A worker thread takes the next work item and opens the stream.
WorkerStart(t) ==
    /\ UNCHANGED apivars
    /\ UNCHANGED callvars
    /\ NextQueued(t)
    /\ WorkerAvailable
    /\ tasks' = SetTask(t, [tasks[t] EXCEPT !.state = "running"])
    /\ UNCHANGED <<files, pool, cache, dest, pc, idx, downloads, locations,
                   exc, error, dest0, cache0>>

\* runtime.py 57-58: the request fails, or raise_for_status raises.
ResponseError(t) ==
    /\ UNCHANGED apivars
    /\ UNCHANGED callvars
    /\ tasks[t].state = "running"
    /\ tasks' = SetTask(t, [tasks[t] EXCEPT !.state = "failed"])
    /\ UNCHANGED <<files, pool, cache, dest, pc, idx, downloads, locations,
                   exc, error, dest0, cache0>>

\* runtime.py 61: the response is good; open(cache_dir / filename, "wb")
\* creates or truncates the cache file.
OpenFile(t, b) ==
    /\ UNCHANGED apivars
    /\ UNCHANGED callvars
    /\ tasks[t].state = "running"
    /\ tasks' = SetTask(t, [tasks[t] EXCEPT !.state = "writing", !.body = b,
                                            !.off = 0])
    /\ cache' = [cache EXCEPT ![WritePath(tasks[t].file).name] = OnDisk(<<>>)]
    /\ UNCHANGED <<files, pool, dest, pc, idx, downloads, locations, exc,
                   error, dest0, cache0>>

\* runtime.py 62-64: one chunk of the body is written.
WriteChunk(t) ==
    /\ UNCHANGED apivars
    /\ UNCHANGED callvars
    /\ tasks[t].state = "writing"
    /\ tasks[t].off < Len(tasks[t].body)
    /\ LET name == WritePath(tasks[t].file).name
           off == tasks[t].off
       IN cache' = [cache EXCEPT ![name] =
                       OnDisk(WriteAt(cache[name].data, off, tasks[t].body[off + 1]))]
    /\ tasks' = SetTask(t, [tasks[t] EXCEPT !.off = tasks[t].off + 1])
    /\ UNCHANGED <<files, pool, dest, pc, idx, downloads, locations, exc,
                   error, dest0, cache0>>

\* runtime.py 62: the stream breaks while the body is read.
StreamError(t) ==
    /\ UNCHANGED apivars
    /\ UNCHANGED callvars
    /\ tasks[t].state = "writing"
    /\ tasks[t].off < Len(tasks[t].body)
    /\ tasks' = SetTask(t, [tasks[t] EXCEPT !.state = "failed"])
    /\ UNCHANGED <<files, pool, cache, dest, pc, idx, downloads, locations,
                   exc, error, dest0, cache0>>

\* runtime.py 62-64: the body is exhausted; _download_file returns.
WorkerDone(t) ==
    /\ UNCHANGED apivars
    /\ UNCHANGED callvars
    /\ tasks[t].state = "writing"
    /\ tasks[t].off = Len(tasks[t].body)
    /\ tasks' = SetTask(t, [tasks[t] EXCEPT !.state = "done"])
    /\ UNCHANGED <<files, pool, cache, dest, pc, idx, downloads, locations,
                   exc, error, dest0, cache0>>

\* ------------------------------------------------- download_files, phase 3
\* Variant: nothing is moved.
MoveFileSkipped(name) ==
    /\ dest' = dest
    /\ cache' = cache
\* shutil.move(cached_file, destination / filename): the destination entry
\* is replaced and the cache entry is gone.
MoveFile(name) ==
    /\ dest' = [dest EXCEPT ![name] = cache[name]]
    /\ cache' = [cache EXCEPT ![name] = Absent]

\* runtime.py 130-140: one iteration of the verify-and-move loop.
VerifyAndMove ==
    /\ UNCHANGED apivars
    /\ UNCHANGED callvars
    /\ pc = "move"
    /\ idx <= Len(downloads)
    /\ LET file == downloads[idx].key
           cached_file == downloads[idx].val
       IN IF cached_file = NoPath
          THEN /\ idx' = idx + 1
               /\ UNCHANGED <<cache, dest, pc, locations, error>>
          ELSE IF ~cache[cached_file.name].exists
          THEN /\ pc' = "raised"
               /\ error' = "FileNotFoundError"
               /\ UNCHANGED <<cache, dest, idx, locations>>
          ELSE IF ~VerifyFile(cached_file, file.sha1)
          THEN /\ pc' = "raised"
               /\ error' = "IntegrityError"
               /\ UNCHANGED <<cache, dest, idx, locations>>
          ELSE /\ MoveFile(file.filename)
               /\ locations' = DictSet(locations, file, DestPath(file.filename))
               /\ idx' = idx + 1
               /\ UNCHANGED <<pc, error>>
    /\ UNCHANGED <<files, pool, downloads, tasks, exc, dest0, cache0>>

\* runtime.py 141: return locations.
Return ==
    /\ UNCHANGED apivars
    /\ UNCHANGED callvars
    /\ pc = "move"
    /\ idx > Len(downloads)
    /\ pc' = "done"
    /\ UNCHANGED <<files, pool, cache, dest, idx, downloads, locations, tasks,
                   exc, error, dest0, cache0>>

Next ==
    \/ CacheLookup
    \/ LookupDone
    \/ Submit
    \/ SubmitDone
    \/ WaitResult
    \/ WaitDone
    \/ ExecutorExit
    \/ \E t \in 1..Len(tasks) : WorkerStart(t)
    \/ \E t \in 1..Len(tasks) : ResponseError(t)
    \/ \E t \in 1..Len(tasks), b \in Bodies : OpenFile(t, b)
    \/ \E t \in 1..Len(tasks) : WriteChunk(t)
    \/ \E t \in 1..Len(tasks) : StreamError(t)
    \/ \E t \in 1..Len(tasks) : WorkerDone(t)
    \/ VerifyAndMove
    \/ Return

Spec == Init /\ [][Next]_vars

\* ============================================================ properties
\* The descriptors of the list that had no cache entry when the call began.
Uncached(file) == ~cache0[file.filename].exists
\* The descriptors whose cache entry held the data their sha1 names.
CachedGood(file) ==
    /\ cache0[file.filename].exists
    /\ Hexdigest(cache0[file.filename].data) = file.sha1
\* Some descriptor of the list had a cache entry that does not match its sha1.
HasCorrupt ==
    \E i \in 1..Len(files) :
        /\ cache0[files[i].filename].exists
        /\ Hexdigest(cache0[files[i].filename].data) # files[i].sha1
DistinctNames ==
    \A i, j \in 1..Len(files) : i # j => files[i].filename # files[j].filename
Ended == pc \in {"done", "raised"}
TaskStates == {tasks[t].state : t \in 1..Len(tasks)}

\* C1: every descriptor in the result map is mapped to destination/filename,
\* carries an expected sha1, and the file at that path has exactly that
\* digest; the result map is filled only in the verify-and-move phase.
C1_ResultVerified ==
    /\ \A n \in 1..Len(locations) :
          LET file == locations[n].key
              path == locations[n].val
          IN /\ path = DestPath(file.filename)
             /\ file.sha1 # None
             /\ dest[path.name].exists
             /\ Hexdigest(dest[path.name].data) = file.sha1
    /\ Len(locations) > 0 => pc \in {"move", "done", "raised"}
\* A call returned a cached file and a freshly downloaded one.
C1_Witness ==
    /\ pc = "done"
    /\ Len(locations) = 2
    /\ \E t \in 1..Len(tasks) : DictHas(locations, tasks[t].file)
    /\ \E n \in 1..Len(locations) : CachedGood(locations[n].key)

\* C2: with pairwise distinct filenames, every descriptor either correctly
\* cached or fetched successfully with the expected content, the call returns
\* and the result map holds every descriptor of the list at
\* destination/filename, after one transfer per uncached descriptor.
C2_AllReturned ==
    ( /\ Ended
      /\ DistinctNames
      /\ \A i \in 1..Len(files) : CachedGood(files[i]) \/ Uncached(files[i])
      /\ \A t \in 1..Len(tasks) :
            /\ tasks[t].state = "done"
            /\ Hexdigest(tasks[t].body) = tasks[t].file.sha1 )
    => /\ pc = "done"
       /\ Len(tasks) = Cardinality({i \in 1..Len(files) : Uncached(files[i])})
       /\ \A i \in 1..Len(files) :
             /\ DictHas(locations, files[i])
             /\ DictGet(locations, files[i]) = DestPath(files[i].filename)

\* C3: a failed transfer does not fail the call: it returns, the descriptor
\* of the failed transfer is not in the result map, the others are.
C3_FetchFailureOmitted ==
    ( /\ Ended
      /\ DistinctNames
      /\ \A i \in 1..Len(files) : CachedGood(files[i]) \/ Uncached(files[i])
      /\ "failed" \in TaskStates
      /\ \A t \in 1..Len(tasks) :
            tasks[t].state = "done" => Hexdigest(tasks[t].body) = tasks[t].file.sha1 )
    => /\ pc = "done"
       /\ \A t \in 1..Len(tasks) :
             tasks[t].state = "failed" <=> ~DictHas(locations, tasks[t].file)

\* C4: when a descriptor's cache entry does not match its sha1 the call never
\* leaves the cache-lookup phase except by raising the integrity error: no
\* transfer is submitted, nothing is relocated, the destination and the cache
\* stay as they were; the loop never passes the mismatching entry.
C4_CorruptCacheAborts ==
    HasCorrupt =>
        /\ pc \in {"lookup", "raised"}
        /\ \E i \in idx..Len(files) : ~CachedGood(files[i]) /\ ~Uncached(files[i])
        /\ pc = "raised" => error = "IntegrityError"
        /\ tasks = <<>>
        /\ locations = <<>>
        /\ dest = dest0
        /\ cache = cache0
\* The second descriptor is corrupt, the first had already verified.
C4_Witness ==
    /\ pc = "raised"
    /\ error = "IntegrityError"
    /\ Len(files) = 2
    /\ idx = 2
    /\ CachedGood(files[1])
    /\ DictGet(downloads, files[1]) # NoPath

\* C5: no transfer is ever submitted for a descriptor with a cache entry, and
\* once the submit loop is over the submitted transfers are exactly the
\* uncached descriptors of the list, in list order.
C5_CachedNeverFetched ==
    /\ \A t \in 1..Len(tasks) : Uncached(tasks[t].file)
    /\ (pc \notin {"lookup", "submit"} /\ ~HasCorrupt) =>
          [t \in 1..Len(tasks) |-> tasks[t].file] = SelectSeq(files, Uncached)
C5_Witness ==
    /\ pc = "wait"
    /\ Len(files) = 2
    /\ Len(tasks) = 1
    /\ \E i \in 1..2 : CachedGood(files[i]) /\ DictGet(downloads, files[i]) # NoPath

\* C6: the transfers in flight never outnumber the pool.
C6_PoolBound ==
    Cardinality({t \in 1..Len(tasks) : tasks[t].state \in {"running", "writing"}}) <= pool
\* The pool is full and a transfer waits in the queue.
C6_Witness ==
    /\ Cardinality({t \in 1..Len(tasks) : tasks[t].state \in {"running", "writing"}}) = pool
    /\ "queued" \in TaskStates

\* C7: while a transfer is queued or in flight the call is not in the
\* verify-and-move phase, and nothing has been relocated.
C7_MoveAfterWave ==
    (TaskStates \ {"done", "failed"} # {}) =>
        /\ pc \notin {"move", "done"}
        /\ locations = <<>>
        /\ dest = dest0
\* The move phase runs after a wave of two transfers.
C7_Witness ==
    /\ pc = "move"
    /\ idx = 2
    /\ Len(tasks) = 2
    /\ Len(locations) = 1

\* C8: when the call ends, by returning or by raising, no transfer is queued
\* or in flight: each one is done or has failed on its own.
C8_NoCancellation ==
    Ended => TaskStates \subseteq {"done", "failed"}
\* The first transfer failed while the second was still queued behind a pool
\* of one; the second ran to its end before the call raised.
C8_Witness ==
    /\ pc = "raised"
    /\ error = "TransferError"
    /\ pool = 1
    /\ Len(tasks) = 2
    /\ tasks[1].state = "failed"
    /\ tasks[2].state = "done"

\* C19: a worker writes the cache file named by its descriptor's filename
\* and no other; over descriptors with pairwise distinct filenames every
\* cache file a worker has opened holds, all through the wave, exactly what
\* that worker has written so far (no other worker writes it); and every
\* descriptor without a cache entry gets its own task, those that share a
\* filename included.
C19_FilenameIsCacheIdentity ==
    /\ [][\A n \in Names :
            (tasks' # tasks /\ cache'[n] # cache[n]) =>
                \E t \in 1..Len(tasks) :
                    tasks'[t] # tasks[t] /\ tasks[t].file.filename = n]_vars
    /\ []((DistinctNames /\ pc \in {"submit", "wait", "join"}) =>
            \A t \in 1..Len(tasks) :
                tasks[t].state \in {"writing", "done"} =>
                    cache[tasks[t].file.filename] =
                        OnDisk(SubSeq(tasks[t].body, 1, tasks[t].off)))
    /\ [](pc \in {"wait", "join", "move"} =>
            /\ Len(tasks) = Cardinality({i \in 1..Len(files) : Uncached(files[i])})
            /\ \A i \in 1..Len(files) :
                 Uncached(files[i]) => \E t \in 1..Len(tasks) : tasks[t].file = files[i])

\* Two workers wrote the cache file of a shared filename; both returned, no
\* exception is pending, and the file holds neither worker's body.
C19_Witness ==
    /\ pc = "move"
    /\ idx = 1
    /\ exc = "none"
    /\ error = "none"
    /\ Len(tasks) = 2
    /\ tasks[1].file.filename = tasks[2].file.filename
    /\ tasks[1].state = "done"
    /\ tasks[2].state = "done"
    /\ cache[tasks[1].file.filename].exists
    /\ cache[tasks[1].file.filename].data \notin {tasks[1].body, tasks[2].body}

\* C20 as stated: when download_files raises the integrity error, nothing
\* has been relocated.
C20_AtomicAbort ==
    (pc = "raised" /\ error = "IntegrityError") =>
        locations = <<>> /\ dest = dest0

\* The entries of downloads that the verify-and-move loop has relocated when
\* it stands at entry idx: the earlier ones that have a cache path.
MovedBefore(i) == {j \in 1..(i - 1) : downloads[j].val # NoPath}

\* C20, amended: a mismatch found at the cache lookup raises with nothing
\* relocated and nothing downloaded; a mismatch found in the verify-and-move
\* loop raises at the first mismatching entry, when every earlier entry that
\* has a cache path is already relocated (in the destination with the
\* descriptor's digest, gone from the cache, recorded in locations) and stays
\* so, and nothing else in the destination has changed.
C20_AbortAtFirstMismatch ==
    (pc = "raised" /\ error = "IntegrityError") =>
        IF HasCorrupt
        THEN locations = <<>> /\ dest = dest0 /\ tasks = <<>> /\ cache = cache0
        ELSE /\ idx \in 1..Len(downloads)
             /\ downloads[idx].val # NoPath
             /\ Hexdigest(cache[downloads[idx].val.name].data) # downloads[idx].key.sha1
             /\ Len(locations) = Cardinality(MovedBefore(idx))
             /\ \A j \in MovedBefore(idx) :
                  LET file == downloads[j].key
                  IN /\ DictHas(locations, file)
                     /\ DictGet(locations, file) = DestPath(file.filename)
                     /\ dest[file.filename].exists
                     /\ Hexdigest(dest[file.filename].data) = file.sha1
                     /\ ~cache[file.filename].exists
             /\ \A n \in Names :
                  dest[n] # dest0[n] =>
                      \E j \in MovedBefore(idx) : downloads[j].key.filename = n

\* The loop relocated its first entry and raised at the second.
C20_Witness ==
    /\ pc = "raised"
    /\ error = "IntegrityError"
    /\ ~HasCorrupt
    /\ idx = 2
    /\ Len(locations) = 1
    /\ dest # dest0

\* ------------------------------------------ download_files, called again
\* Calls of download_files made one after another on the same directories.
MaxInvocations == 2

\* The descriptor the integrity error was raised at: the one the lookup loop
\* stood at, or the entry the verify-and-move loop stood at.
Culprit == IF HasCorrupt THEN files[idx] ELSE downloads[idx].key

\* The lists a later call is made with: the same list, or one of its
\* descriptors alone.
ListsAfter(list) == {list} \cup {<<list[i]>> : i \in 1..Len(list)}

\* The call has ended and the caller calls download_files again; the cache
\* and the destination are as the call before left them.
CallAgain(list) ==
    /\ UNCHANGED apivars
    /\ Ended
    /\ invocation < MaxInvocations
    /\ invocation' = invocation + 1
    /\ bad' = bad \cup (IF pc = "raised" /\ error = "IntegrityError"
                        THEN {Culprit} ELSE {})
    /\ last' = [files |-> files, returned |-> (pc = "done"), locations |-> locations]
    /\ files' = list
    /\ pc' = "lookup"
    /\ idx' = 1
    /\ downloads' = <<>>
    /\ locations' = <<>>
    /\ tasks' = <<>>
    /\ exc' = "none"
    /\ error' = "none"
    /\ dest0' = dest
    /\ cache0' = cache
    /\ UNCHANGED <<pool, cache, dest>>

NextAgain ==
    \/ Next
    \/ \E list \in ListsAfter(files) : CallAgain(list)

\* The first of the calls: any list, any cache, downloads one at a time.
InitAgain ==
    /\ files \in FileLists
    /\ pool = 1
    /\ cache \in CacheStates
    /\ dest = DestBefore
    /\ dest0 = dest
    /\ cache0 = cache
    /\ pc = "lookup"
    /\ idx = 1
    /\ downloads = <<>>
    /\ locations = <<>>
    /\ tasks = <<>>
    /\ exc = "none"
    /\ error = "none"
    /\ FirstCall
    /\ ApiConstructed
    /\ clock = 0

SpecAgain == InitAgain /\ [][NextAgain]_vars

\* ------------------------------------------- properties of repeated calls
\* The cache directory d holds a file under the descriptor's filename that
\* does not have the descriptor's digest.
Mismatching(d, file) ==
    d[file.filename].exists /\ Hexdigest(d[file.filename].data) # file.sha1
Listed(file) == \E i \in 1..Len(files) : files[i] = file

Relocated == {last.locations[n].key : n \in 1..Len(last.locations)}
\* This call is the call before made again: it returned, same list.
Repeated == invocation > 1 /\ last.returned /\ files = last.files

\* C22: when download_files has returned, the cache has no entry under the
\* filename of any descriptor of the result map and the destination has one;
\* the same call made again finds none of them in the cache and submits a
\* transfer for each of them.
C22_RelocationConsumes ==
    /\ pc = "done" =>
         \A n \in 1..Len(locations) :
            /\ ~cache[locations[n].key.filename].exists
            /\ dest[locations[n].key.filename].exists
    /\ Repeated =>
         \A file \in Relocated :
            /\ Uncached(file)
            /\ pc \notin {"lookup", "submit"} =>
                 \E t \in 1..Len(tasks) : tasks[t].file = file

\* ------------------------------------------------------------ termination
\* The calling thread and the worker threads keep running while they can:
\* every transfer ends (the body is finite, or the stream breaks) and a
\* worker that is free takes the next work item.  The lists are those whose
\* descriptors all name a digest.
InitLive ==
    /\ Init
    /\ \A i \in 1..Len(files) : files[i].sha1 # None

SpecLive == InitLive /\ [][Next]_vars /\ WF_vars(Next)

\* C23: download_files ends, with a result map or an exception, whatever
\* the list and the pool size, also with more downloads than workers and
\* with transfers that fail.
C23_Terminates == <>Ended

\* The call ended although there were more downloads than workers and one
\* transfer failed while another went through.
C23_Witness ==
    /\ Ended
    /\ Len(tasks) > pool
    /\ "failed" \in TaskStates
    /\ "done" \in TaskStates

\* =================================================== ModrinthAPI._get
\* Bounds of the registry model.
\* Calls of _get the caller makes.
MaxCalls == 2
\* 429 answers the registry gives in a row.
MaxRecalls == 2
\* Largest value a rate-limit header carries.
MaxHeader == 3
\* Latest tick at which the clock still advances outside of sleep.
MaxClock == 4
\* Resolution of the wall clock: time.time() is a fraction of a second.
TicksPerSecond == 2

\* modrinth.py 68: range(5).
MaxAttempts == 5
\* modrinth.py 77-78: the defaults of headers.get.
DefaultReset == 0
DefaultRemaining == 100
\* modrinth.py 79.
TooManyRequests == 429
\* Variant: only server errors raise.
IsSuccessBelow500(status) == status >= 200 /\ status < 500
\* modrinth.py 83: range(200, 300).
IsSuccess(status) == status >= 200 /\ status < 300

\* Header values travel as decimal text; int() parses them.
Decimal == <<"0", "1", "2", "3", "4", "5", "6", "7", "8", "9">>
HeaderText(n) == Decimal[n + 1]
IntOf(text) == (CHOOSE n \in 1..Len(Decimal) : Decimal[n] = text) - 1
Header(n) == [present |-> TRUE, text |-> HeaderText(n)]
HeaderValues == {NoHeader} \cup {Header(n) : n \in 0..MaxHeader}
\* int(response.headers.get(name, default))
HeaderGet(h, default) == IF h.present THEN IntOf(h.text) ELSE default

Statuses == {200, 404, 429}
\* The responses a call of _get made by itself is answered with.
Responses ==
    [status : Statuses, reset : HeaderValues, remaining : HeaderValues,
     body : {JsonArray(<<>>)}]
\* The url and params such a call is made with.
GetRequests ==
    {[url |-> "/projects", params |-> {<<"ids", "[\"p1\"]">>}],
     [url |-> "/versions", params |-> {}]}

\* math.ceil(num / den) for den > 0.
Ceil(num, den) == -((-num) \div den)
\* Variant: the wait is rounded down.
WaitSecondsFloor(reset, nowTicks) ==
    (reset * TicksPerSecond - nowTicks) \div TicksPerSecond
\* modrinth.py 57: math.ceil(self.ratelimit_reset - now), now in ticks.
WaitSeconds(reset, nowTicks) == Ceil(reset * TicksPerSecond - nowTicks, TicksPerSecond)

InitGet ==
    /\ files = <<>>
    /\ pool = 1
    /\ cache = [n \in Names |-> Absent]
    /\ dest = DestBefore
    /\ dest0 = dest
    /\ cache0 = cache
    /\ pc = "idle"
    /\ idx = 1
    /\ downloads = <<>>
    /\ locations = <<>>
    /\ tasks = <<>>
    /\ exc = "none"
    /\ error = "none"
    /\ FirstCall
    /\ ApiConstructed
    /\ clock \in 0..MaxClock

\* modrinth.py 52: _get(url, params) is entered from a caller.
GetStart(req) ==
    /\ calls' = calls + 1
    /\ gpc' = "entry"
    /\ request' = req
    /\ recalls' = 0
    /\ slept' = 0
    /\ attempt' = 0
    /\ sent' = 0
    /\ response' = NoResponse
    /\ outcome' = "none"
    /\ now' = 0
    /\ wait_seconds' = 0
    /\ UNCHANGED <<ratelimit_reset, ratelimit_remaining, clock>>

\* A caller on the calling thread calls _get.
GetCall(req) ==
    /\ gpc \in {"idle", "returned", "failed"}
    /\ fop = NoOp
    /\ calls < MaxCalls
    /\ GetStart(req)
    /\ UNCHANGED fetchvars
    /\ UNCHANGED dlvars

\* modrinth.py 53-58: the rate-limit test on entry.
GetEntry ==
    /\ gpc = "entry"
    /\ IF ratelimit_remaining = 0
       THEN /\ now' = clock
            /\ wait_seconds' = WaitSeconds(ratelimit_reset, clock)
            /\ gpc' = "sleep"
       ELSE /\ gpc' = "request"
            /\ UNCHANGED <<now, wait_seconds>>
    /\ UNCHANGED <<ratelimit_reset, ratelimit_remaining, clock, slept, attempt,
                   recalls, calls, outcome, request, sent, response>>
    /\ UNCHANGED fetchvars
    /\ UNCHANGED dlvars

\* modrinth.py 59-61: one iteration of for i in range(wait_seconds).
Sleep ==
    /\ gpc = "sleep"
    /\ slept < wait_seconds
    /\ clock' = clock + TicksPerSecond
    /\ slept' = slept + 1
    /\ UNCHANGED <<ratelimit_reset, ratelimit_remaining, gpc, now, wait_seconds,
                   attempt, recalls, calls, outcome, request, sent, response>>
    /\ UNCHANGED fetchvars
    /\ UNCHANGED dlvars

SleepDone ==
    /\ gpc = "sleep"
    /\ slept >= wait_seconds
    /\ gpc' = "request"
    /\ UNCHANGED <<ratelimit_reset, ratelimit_remaining, clock, now, wait_seconds,
                   slept, attempt, recalls, calls, outcome, request, sent,
                   response>>
    /\ UNCHANGED fetchvars
    /\ UNCHANGED dlvars

\* Variant: while True instead of range(5).
ConnectErrorForever ==
    /\ gpc = "request"
    /\ attempt' = attempt + 1
    /\ sent' = sent + 1
    /\ UNCHANGED <<ratelimit_reset, ratelimit_remaining, clock, gpc, now,
                   wait_seconds, slept, recalls, calls, outcome, request,
                   response>>
    /\ UNCHANGED fetchvars
    /\ UNCHANGED dlvars

\* modrinth.py 70-73: http.get raises ConnectError; the loop continues.
ConnectError ==
    /\ gpc = "request"
    /\ attempt < MaxAttempts
    /\ attempt' = attempt + 1
    /\ sent' = sent + 1
    /\ UNCHANGED <<ratelimit_reset, ratelimit_remaining, clock, gpc, now,
                   wait_seconds, slept, recalls, calls, outcome, request,
                   response>>
    /\ UNCHANGED fetchvars
    /\ UNCHANGED dlvars

\* modrinth.py 75-76: the loop ran out without a break.
Exhausted ==
    /\ gpc = "request"
    /\ attempt >= MaxAttempts
    /\ gpc' = "failed"
    /\ outcome' = "RuntimeError"
    /\ UNCHANGED <<ratelimit_reset, ratelimit_remaining, clock, now, wait_seconds,
                   slept, attempt, recalls, calls, request, sent, response>>
    /\ UNCHANGED fetchvars
    /\ UNCHANGED dlvars

\* Variant: the re-call drops the query parameters.
RecallWithoutParams(req) == [req EXCEPT !.params = {}]
\* modrinth.py 81: self._get(url, params), the arguments are passed on.
RecallRequest(req) == [url |-> req.url, params |-> req.params]

\* modrinth.py 79: the response asks to be tried again.
RateLimited(status) == status = TooManyRequests

\* modrinth.py 77: the reset the response sets.
ResetOf(r) == HeaderGet(r.reset, DefaultReset)
\* Variant: a response without the header leaves the old value.
RemainingKept(r) ==
    IF r.remaining.present THEN IntOf(r.remaining.text) ELSE ratelimit_remaining
\* modrinth.py 78: the remaining the response sets.
RemainingOf(r) == HeaderGet(r.remaining, DefaultRemaining)

\* modrinth.py 70, 74, 77-85: http.get returns a response.
Respond(r) ==
    /\ gpc = "request"
    /\ attempt < MaxAttempts
    /\ r.status = TooManyRequests => recalls < MaxRecalls
    /\ ratelimit_reset' = ResetOf(r)
    /\ ratelimit_remaining' = RemainingOf(r)
    /\ response' = r
    /\ IF RateLimited(r.status)
       THEN /\ gpc' = "entry"
            /\ request' = RecallRequest(request)
            /\ recalls' = recalls + 1
            /\ slept' = 0
            /\ attempt' = 0
            /\ sent' = 0
            /\ now' = 0
            /\ wait_seconds' = 0
            /\ outcome' = outcome
       ELSE IF ~IsSuccess(r.status)
       THEN /\ gpc' = "failed"
            /\ outcome' = "HTTPStatusError"
            /\ sent' = sent + 1
            /\ UNCHANGED <<recalls, slept, attempt, now, wait_seconds, request>>
       ELSE /\ gpc' = "returned"
            /\ outcome' = "json"
            /\ sent' = sent + 1
            /\ UNCHANGED <<recalls, slept, attempt, now, wait_seconds, request>>
    /\ UNCHANGED <<clock, calls>>
    /\ UNCHANGED fetchvars
    /\ UNCHANGED dlvars

\* Time passes while the thread runs or waits for the network.
Tick ==
    /\ clock < MaxClock
    /\ gpc # "idle"
    /\ clock' = clock + 1
    /\ UNCHANGED <<ratelimit_reset, ratelimit_remaining, gpc, now, wait_seconds,
                   slept, attempt, recalls, calls, outcome, request, sent,
                   response>>
    /\ UNCHANGED fetchvars
    /\ UNCHANGED dlvars

NextGet ==
    \/ \E req \in GetRequests : GetCall(req)
    \/ GetEntry
    \/ Sleep
    \/ SleepDone
    \/ ConnectError
    \/ Exhausted
    \/ \E r \in Responses : Respond(r)
    \/ Tick

SpecGet == InitGet /\ [][NextGet]_vars

\* ------------------------------------------------- properties of _get
\* C9: an invocation of _get that found remaining = 0 on entry has slept,
\* when it issues its request, the least whole number of seconds n >= 0 with
\* n >= reset - now (now as read on entry); one that found remaining # 0 has
\* not slept at all.
C9_RateLimitWait ==
    gpc = "request" =>
        IF ratelimit_remaining = 0
        THEN /\ slept >= 0
             /\ slept * TicksPerSecond >= ratelimit_reset * TicksPerSecond - now
             /\ slept > 0 =>
                   (slept - 1) * TicksPerSecond < ratelimit_reset * TicksPerSecond - now
        ELSE slept = 0
\* The reset lay a fraction of a second more than one second ahead.
C9_Witness ==
    /\ gpc = "request"
    /\ ratelimit_remaining = 0
    /\ slept = 2
    /\ now % TicksPerSecond # 0
    /\ ratelimit_reset * TicksPerSecond - now < 2 * TicksPerSecond

\* C10: the reset header is a number of seconds to wait: after a response
\* with remaining = 0 and reset = R the next invocation has slept R seconds
\* when it issues its request, whatever the clock shows.
C10_ResetIsSecondsToWait ==
    (gpc = "request" /\ ratelimit_remaining = 0) => slept = ratelimit_reset

\* C11: one invocation of _get calls http.get at most 5 times; a response is
\* processed on the first attempt that connects; the call fails with the
\* connection error only after 5 failed attempts, and neither a failed
\* attempt nor that failure changes the rate-limit state.
C11_ConnectionRetries ==
    /\ [](/\ sent <= 5
          /\ attempt <= 5
          /\ outcome = "RuntimeError" => (gpc = "failed" /\ attempt = 5 /\ sent = 5)
          /\ outcome \in {"json", "HTTPStatusError"} =>
                (attempt < 5 /\ sent = attempt + 1))
    /\ [][(attempt' = attempt + 1 \/ (outcome' = "RuntimeError" /\ outcome # "RuntimeError"))
            => UNCHANGED <<ratelimit_reset, ratelimit_remaining>>]_vars
\* All five attempts failed; the rate-limit state of an earlier response stands.
C11_Witness ==
    /\ outcome = "RuntimeError"
    /\ sent = 5
    /\ ratelimit_remaining = 0
    /\ ratelimit_reset = 2

\* A step in which the running invocation of _get receives a response.
Received == gpc = "request" /\ gpc' # "request" /\ outcome' # "RuntimeError"

C13_ErrorStatusRaises ==
    /\ [][(Received /\ response'.status \notin 200..299 /\ response'.status # 429) =>
            /\ gpc' = "failed"
            /\ outcome' = "HTTPStatusError"
            /\ sent' = sent + 1
            /\ sent' = attempt + 1]_vars
    /\ [][(gpc = "failed" /\ calls' = calls) =>
            UNCHANGED <<gpc, outcome, sent, response, request>>]_vars
    /\ [](outcome = "json" => response.status \in 200..299)
\* A 404 arrived on the third attempt.
C13_Witness ==
    /\ gpc = "failed"
    /\ outcome = "HTTPStatusError"
    /\ response.status = 404
    /\ attempt = 2
    /\ sent = 3

\* The value of a rate-limit header, or the given value when it is absent.
HeaderOr(h, absent) == IF h.present THEN IntOf(h.text) ELSE absent

\* C14: the rate-limit state is (remaining 500, reset 0) until the first
\* response; once a response has been received in a call the state is that
\* response's header values, 100 and 0 standing in for an absent header,
\* whatever the status; a 429 that carries remaining = 0 sends the re-call
\* through the rate-limit wait.
C14_RateLimitState ==
    /\ []((calls = 0 \/ (calls = 1 /\ response = NoResponse)) =>
            (ratelimit_remaining = 500 /\ ratelimit_reset = 0))
    /\ [](response # NoResponse =>
            /\ ratelimit_remaining = HeaderOr(response.remaining, 100)
            /\ ratelimit_reset = HeaderOr(response.reset, 0))
    /\ [][Received =>
            /\ response'.status \in Statuses
            /\ ratelimit_remaining' = HeaderOr(response'.remaining, 100)
            /\ ratelimit_reset' = HeaderOr(response'.reset, 0)]_vars
    /\ [][(gpc = "entry" /\ gpc' # "entry" /\ response.status = 429
             /\ HeaderOr(response.remaining, 100) = 0) => gpc' = "sleep"]_vars
\* The second 429 in a row carried remaining = 0 and a reset that lies ahead:
\* the re-call sleeps.
C14_Witness ==
    /\ gpc = "sleep"
    /\ slept = 1
    /\ recalls = 2
    /\ response.status = 429
    /\ response.remaining = Header(0)

\* ============================================= ModrinthAPI fetch_* methods
\* Longest identifier list handed to a batched lookup.
MaxIds == 2
\* Longest JSON array the registry answers with.
MaxItems == 2

Ids == {"p1", "p2"}
\* The identifier lists tried: no identifier twice.
IdLists ==
    {l \in UNION {[1..n -> Ids] : n \in 0..MaxIds} :
        \A i, j \in 1..Len(l) : l[i] = l[j] => i = j}

\* json.dumps of a tuple or list of strings.
RECURSIVE JsonElements(_)
JsonElements(ids) ==
    IF ids = <<>> THEN ""
    ELSE IF Len(ids) = 1 THEN "\"" \o ids[1] \o "\""
    ELSE "\"" \o ids[1] \o "\", " \o JsonElements(Tail(ids))
JsonDumps(ids) == "[" \o JsonElements(ids) \o "]"
\* json.dumps of a bool.
JsonBool(b) == IF b = "True" THEN "true" ELSE "false"

\* A response item: an identifier and the set of fields it carries.
\* The items tried: records with every field, and one with none.
RawItems ==
    {[id |-> i, fields |-> {"slug", "project_id"}] : i \in Ids}
    \cup {[id |-> "p1", fields |-> {}]}
\* models/modrinth.py: the fields a record type cannot be built without.
Required(type) == IF type = "Project" THEN {"slug"} ELSE {"project_id"}
\* Project(**item) / Version(**item) raises unless the required fields are there.
Parses(type, item) == Required(type) \subseteq item.fields
Parse(type, item) == [type |-> type, id |-> item.id]

\* modrinth.py 119-125, 159-165, 210-216: for item in response: try to parse,
\* continue on failure, append otherwise.  Iterating a JSON object yields its
\* keys, none of which can be unpacked into a record.
RECURSIVE ParseItemsBreak(_, _)
ParseItemsBreak(type, items) ==
    IF items = <<>> THEN <<>>
    ELSE IF Parses(type, Head(items))
         THEN <<Parse(type, Head(items))>> \o ParseItemsBreak(type, Tail(items))
         ELSE <<>>
RECURSIVE ParseItems(_, _)
ParseItems(type, items) ==
    IF items = <<>> THEN <<>>
    ELSE IF Parses(type, Head(items))
         THEN <<Parse(type, Head(items))>> \o ParseItems(type, Tail(items))
         ELSE ParseItems(type, Tail(items))
ParseAll(type, body) == IF body.array THEN ParseItems(type, body.items) ELSE <<>>

\* The results a fetch method can end with.
Pending == [kind |-> "pending", items |-> <<>>, error |-> ""]
ListOf(items) == [kind |-> "list", items |-> items, error |-> ""]
RecordOf(item) == [kind |-> "record", items |-> <<item>>, error |-> ""]
ReturnedNone == [kind |-> "None", items |-> <<>>, error |-> ""]
Raised(e) == [kind |-> "raised", items |-> <<>>, error |-> e]

\* list.pop() removes and returns the last element; IndexError on an empty
\* list is turned into None (modrinth.py 139-142, 176-179).
PopFirst(list) == IF list = <<>> THEN ReturnedNone ELSE RecordOf(list[1])
Pop(list) == IF list = <<>> THEN ReturnedNone ELSE RecordOf(list[Len(list)])

Batched == {"fetch_projects", "fetch_versions"}
Single == {"fetch_project", "fetch_version"}
TypeOf(name) == IF name \in {"fetch_projects", "fetch_project"} THEN "Project" ELSE "Version"

Op(name, ids) ==
    [name |-> name, ids |-> ids, loaders |-> <<>>, game_versions |-> <<>>,
     featured |-> "None", algorithm |-> ""]
\* The filter arguments tried for fetch_project_versions.
Filters ==
    {[loaders |-> <<>>, game_versions |-> <<>>, featured |-> "None"],
     [loaders |-> <<"fabric">>, game_versions |-> <<>>, featured |-> "None"],
     [loaders |-> <<"fabric">>, game_versions |-> <<"1.20">>, featured |-> "False"]}
FileHashes == {"h1"}
Algorithms == {"sha512", "sha1"}
FetchOps ==
    {Op(n, ids) : n \in Batched, ids \in IdLists}
    \cup {Op(n, <<id>>) : n \in Single, id \in Ids}
    \cup {[name |-> "fetch_project_versions", ids |-> <<id>>, loaders |-> f.loaders,
           game_versions |-> f.game_versions, featured |-> f.featured,
           algorithm |-> ""] : id \in Ids, f \in Filters}
    \cup {[name |-> "fetch_version_from_file_hash", ids |-> <<h>>, loaders |-> <<>>,
           game_versions |-> <<>>, featured |-> "None", algorithm |-> a] :
            h \in FileHashes, a \in Algorithms}

\* modrinth.py 202-207: the query of fetch_project_versions.
Query(op) ==
    (IF op.loaders # <<>> THEN {<<"loaders", JsonDumps(op.loaders)>>} ELSE {})
    \cup (IF op.game_versions # <<>>
          THEN {<<"game_versions", JsonDumps(op.game_versions)>>} ELSE {})
    \cup (IF op.featured # "None" THEN {<<"featured", JsonBool(op.featured)>>} ELSE {})

\* The _get call each method makes (modrinth.py 118, 158, 209, 232).
RequestOf(op) ==
    IF op.name \in {"fetch_projects", "fetch_project"}
    THEN [url |-> "/projects", params |-> {<<"ids", JsonDumps(op.ids)>>}]
    ELSE IF op.name \in {"fetch_versions", "fetch_version"}
    THEN [url |-> "/versions", params |-> {<<"ids", JsonDumps(op.ids)>>}]
    ELSE IF op.name = "fetch_project_versions"
    THEN [url |-> "/project/" \o op.ids[1] \o "/version", params |-> Query(op)]
    ELSE [url |-> "/version_file/" \o op.ids[1],
          params |-> {<<"algorithm", op.algorithm>>}]

\* modrinth.py 114-115, 154-155: if not identifiers: return [].
ShortCircuitNever(op) == FALSE
ShortCircuit(op) == op.name \in Batched /\ op.ids = <<>>

\* What the method makes of the JSON that _get returned.
Finish(op, body) ==
    IF op.name \in Batched \cup {"fetch_project_versions"}
    THEN ListOf(ParseAll(TypeOf(op.name), body))
    ELSE IF op.name \in Single
    THEN Pop(ParseAll(TypeOf(op.name), body))
    ELSE IF ~body.array /\ Parses("Version", body.items[1])
    THEN RecordOf(Parse("Version", body.items[1]))
    ELSE ReturnedNone

JsonBodies ==
    {JsonArray(items) : items \in UNION {[1..n -> RawItems] : n \in 0..MaxItems}}
    \cup {JsonObject(item) : item \in RawItems}
\* The registry's answers: with both rate-limit headers or with neither, and
\* with a body that varies where a method reads it, in a 200 response.
FetchResponses ==
    {r \in [status : Statuses, reset : {NoHeader, Header(1)},
            remaining : {NoHeader, Header(0)}, body : JsonBodies] :
        /\ r.reset.present = r.remaining.present
        /\ r.status # 200 => r.body = JsonArray(<<>>)}

InitFetch ==
    /\ files = <<>>
    /\ pool = 1
    /\ cache = [n \in Names |-> Absent]
    /\ dest = DestBefore
    /\ dest0 = dest
    /\ cache0 = cache
    /\ pc = "idle"
    /\ idx = 1
    /\ downloads = <<>>
    /\ locations = <<>>
    /\ tasks = <<>>
    /\ exc = "none"
    /\ error = "none"
    /\ FirstCall
    /\ ApiConstructed
    /\ clock = 0

\* A caller calls one of the fetch methods.
Fetch(op) ==
    /\ gpc \in {"idle", "returned", "failed"}
    /\ fresult # Pending
    /\ calls < MaxCalls
    /\ fop' = op
    /\ IF ShortCircuit(op)
       THEN /\ fresult' = ListOf(<<>>)
            /\ UNCHANGED <<ratelimit_reset, ratelimit_remaining, clock, gpc, now,
                           wait_seconds, slept, attempt, recalls, calls, outcome,
                           request, sent, response>>
       ELSE /\ fresult' = Pending
            /\ GetStart(RequestOf(op))
    /\ UNCHANGED dlvars

\* _get returned response.json() and its locals are gone: the method builds
\* its result from the JSON.
FetchReturn ==
    /\ gpc = "returned"
    /\ fresult = Pending
    /\ fresult' = Finish(fop, response.body)
    /\ now' = 0
    /\ wait_seconds' = 0
    /\ attempt' = 0
    /\ UNCHANGED <<ratelimit_reset, ratelimit_remaining, clock, gpc, slept,
                   recalls, calls, outcome, request, sent, response, fop>>
    /\ UNCHANGED dlvars

\* _get raised: no fetch method catches what _get raises, the call is outside
\* every try block (modrinth.py 118, 158, 209, 232).
FetchRaise ==
    /\ gpc = "failed"
    /\ fresult = Pending
    /\ fresult' = Raised(outcome)
    /\ now' = 0
    /\ wait_seconds' = 0
    /\ attempt' = 0
    /\ UNCHANGED <<ratelimit_reset, ratelimit_remaining, clock, gpc, slept,
                   recalls, calls, outcome, request, sent, response, fop>>
    /\ UNCHANGED dlvars

NextFetch ==
    \/ \E op \in FetchOps : Fetch(op)
    \/ GetEntry
    \/ Sleep
    \/ SleepDone
    \/ ConnectError
    \/ Exhausted
    \/ \E r \in FetchResponses : Respond(r)
    \/ FetchReturn
    \/ FetchRaise

SpecFetch == InitFetch /\ [][NextFetch]_vars

\* ---------------------------------------- properties of the fetch methods
\* The method named by fop has ended, by a return or by an exception.
FetchEnded == fop # NoOp /\ fresult # Pending

\* C15: when the registry answers the /version_file/{hash} request of
\* fetch_version_from_file_hash with 404, the method returns None and does
\* not raise.
C15_HashNotFoundIsNone ==
    (/\ fop.name = "fetch_version_from_file_hash"
     /\ FetchEnded
     /\ response.status = 404) => fresult = ReturnedNone

\* The positions of the items of a JSON array that carry every field the
\* record type requires, and the k-th of them in response order.
Parseable(type, items) ==
    {i \in 1..Len(items) : Required(type) \subseteq items[i].fields}
Kth(set, k) == CHOOSE i \in set : Cardinality({j \in set : j < i}) = k - 1

\* C16: a batched lookup whose request succeeded returns a list, and that
\* list is the subsequence, in response order, of the response items that
\* parse into the record type: nothing else is dropped, nothing is reordered,
\* and no unparseable item makes the call raise.
C16_ParseableSubsequence ==
    (/\ fop.name \in Batched \cup {"fetch_project_versions"}
     /\ fop.ids # <<>>
     /\ FetchEnded
     /\ gpc = "returned"
     /\ response.body.array) =>
        LET type == TypeOf(fop.name)
            items == response.body.items
            good == Parseable(type, items)
        IN /\ fresult.kind = "list"
           /\ Len(fresult.items) = Cardinality(good)
           /\ \A k \in 1..Cardinality(good) :
                fresult.items[k] = [type |-> type, id |-> items[Kth(good, k)].id]

\* An unparseable item came first and a parseable one second: the list holds
\* the second alone.
C16_Witness ==
    /\ fop.name = "fetch_project_versions"
    /\ FetchEnded
    /\ gpc = "returned"
    /\ response.body.array
    /\ Len(response.body.items) = 2
    /\ Parseable("Version", response.body.items) = {2}
    /\ fresult = ListOf(<<[type |-> "Version", id |-> response.body.items[2].id]>>)

\* C17: fetch_projects / fetch_versions with no identifiers return [] and
\* touch nothing of the API state (no _get call, no request, no sleep, the
\* rate-limit fields as they were, whatever remaining is); with identifiers
\* they call _get once, and the request carries the one parameter "ids" that
\* holds the JSON list of all of them.
C17_EmptyShortCircuits ==
    /\ []((fop.name \in Batched /\ fop.ids = <<>>) => fresult = ListOf(<<>>))
    /\ [][(fop'.name \in Batched /\ fop'.ids = <<>>) =>
            UNCHANGED <<ratelimit_reset, ratelimit_remaining, clock, gpc, now,
                        wait_seconds, slept, attempt, recalls, calls, outcome,
                        request, sent, response>>]_vars
    /\ []((fop.name \in Batched /\ fop.ids # <<>>) =>
            /\ request.url = (IF fop.name = "fetch_projects" THEN "/projects" ELSE "/versions")
            /\ request.params = {<<"ids", JsonDumps(fop.ids)>>})
    /\ [][(fop'.name \in Batched /\ fop'.ids # <<>> /\ fresult # Pending
             /\ fresult' = Pending) => calls' = calls + 1]_vars
    /\ [][fresult = Pending => calls' = calls]_vars

\* The call before left remaining = 0; the lookup with no identifiers that
\* followed returned [] with the API state as that call had left it.
C17_Witness ==
    /\ fop \in {Op(n, <<>>) : n \in Batched}
    /\ fresult = ListOf(<<>>)
    /\ ratelimit_remaining = 0
    /\ calls = 1
    /\ gpc = "returned"
    /\ slept = 0

\* C18: fetch_project / fetch_version send the request the batched lookup
\* sends for that one identifier, and return the last element of the list
\* the batched lookup builds from the response, or None when it is empty.
C18_LastOrNone ==
    (fop.name \in Single /\ fop # NoOp) =>
        /\ request = RequestOf(Op(IF fop.name = "fetch_project" THEN "fetch_projects"
                                  ELSE "fetch_versions", fop.ids))
        /\ (FetchEnded /\ gpc = "returned") =>
             LET list == Finish(Op(IF fop.name = "fetch_project" THEN "fetch_projects"
                                   ELSE "fetch_versions", fop.ids), response.body).items
             IN fresult = IF list = <<>>
                          THEN ReturnedNone
                          ELSE RecordOf(list[Len(list)])

\* The response held two parseable projects with different identifiers:
\* fetch_project returned the second.
C18_Witness ==
    /\ fop.name = "fetch_project"
    /\ FetchEnded
    /\ gpc = "returned"
    /\ response.body.array
    /\ Len(response.body.items) = 2
    /\ Parseable("Project", response.body.items) = {1, 2}
    /\ response.body.items[1].id # response.body.items[2].id
    /\ fresult = RecordOf([type |-> "Project", id |-> response.body.items[2].id])

====
